---- MODULE Spec2Model ----
(***************************************************************************)
(* A model of the numeric building blocks of DSS-VAE-pytorch:              *)
(*   src/syntaxVAE/md.py      find_val, MatrixMapper, MatrixDecoder        *)
(*   src/submodules/baseRNN.py BaseRNN                                     *)
(*                                                                         *)
(* Tensors are sequences: a (batch, width) tensor is a sequence of rows, a *)
(* (batch, n, m) tensor a sequence of matrices.  Real numbers are modelled *)
(* by integers, so every sum and product is exact.  A batch holds at least *)
(* one element.  Positions reported to the caller are 0-based, as in the   *)
(* program; sequences of the model are 1-based.                            *)
(***************************************************************************)
EXTENDS Integers, Sequences, FiniteSets, TLC

VARIABLES decoder, training, call

vars == <<decoder, training, call>>

(***************************************************************************)
(* Bounds of the model.                                                    *)
(***************************************************************************)
\* largest batch size of a tensor handed to any operation
MaxBatch == 2
\* largest sequence length of a token tensor handed to find_val
MaxSeq == 3

\* token ids of the tensors handed to find_val, and the values searched for
Tokens == {0, 1}
\* entries of the feature vectors handed to the mappers and the decoder
RowSeeds == {0, 1}
\* random draws of the dropout masks (one seed fixes every mask of a call)
Seeds == {1, 2}

(***************************************************************************)
(* Tensor helpers.                                                         *)
(***************************************************************************)
RECURSIVE Sum(_, _)
\* f[1] + ... + f[n]
Sum(f, n) == IF n = 0 THEN 0 ELSE f[n] + Sum(f, n - 1)

\* a vector, a (batch, width) tensor and a (batch, n, m) tensor given by
\* their entries, each entry computed once
Vector(f) == SubSeq(f, 1, Len(f))
Matrix(f) == Vector([b \in 1..Len(f) |-> Vector(f[b])])
Tensor(f) == Vector([b \in 1..Len(f) |-> Matrix(f[b])])

\* inputs.size(0) and the width of a (batch, width) tensor
Size0(x) == Len(x)
Size1(x) == Len(x[1])

\* what a call hands back: a value, or the exception it raised
Ok(v) == [ok |-> TRUE, val |-> v]
Raise(e) == [ok |-> FALSE, err |-> e]

(***************************************************************************)
(* find_val (md.py 27-37).                                                 *)
(***************************************************************************)
\* inputs == val, elementwise
ValMatch(inputs, val) ==
    [r \in 1..Size0(inputs) |-> [p \in 1..Size1(inputs) |-> inputs[r][p] = val]]

\* m.cumsum(axis) of a boolean matrix: True counts 1
CumSum(m, axis) ==
    [r \in 1..Size0(m) |-> [p \in 1..Size1(m) |->
        IF axis = 1
        THEN Sum([q \in 1..p |-> IF m[r][q] THEN 1 ELSE 0], p)
        ELSE Sum([q \in 1..r |-> IF m[q][p] THEN 1 ELSE 0], r)]]

\* a mutant of FirstMatch: the running count is not consulted
FirstMatchAnyMatch(val_match, axis) == val_match

\* (val_match.cumsum(axis) == 1) & val_match
FirstMatch(val_match, axis) ==
    LET c == CumSum(val_match, axis)
    IN  [r \in 1..Size0(val_match) |-> [p \in 1..Size1(val_match) |->
            (c[r][p] = 1) /\ val_match[r][p]]]

\* the line of m along axis that holds kept index k: a row for axis 1, a
\* column for axis 0
Line(m, axis, k) ==
    IF axis = 1 THEN m[k] ELSE [r \in 1..Size0(m) |-> m[r][k]]

\* a mutant of MaxValue: the flag of a line is its first entry
MaxValueFirstEntry(line) == line[1]

\* the maximum of a boolean line: True when some entry is True
MaxValue(line) == \E p \in 1..Len(line) : line[p]

\* the positions of a line that hold its maximum
ArgMax(line) == {p \in 1..Len(line) : line[p] = MaxValue(line)}

RECURSIVE Picks(_, _, _)
\* the ways to pick, for each of the first n lines, a 0-based position
\* holding its maximum
Picks(m, axis, n) ==
    IF n = 0 THEN {<<>>}
    ELSE {Append(ix, p - 1) : ix \in Picks(m, axis, n - 1),
                              p \in ArgMax(Line(m, axis, n))}

\* m.max(axis): the (values, indices) pairs the reduction may hand back.
\* The index of a line is a position holding its maximum; among several
\* such positions the choice is not determined.
Max(m, axis) ==
    LET n == IF axis = 1 THEN Size0(m) ELSE Size1(m)
    IN  {[values |-> [k \in 1..n |-> MaxValue(Line(m, axis, k))], indices |-> ix] :
            ix \in Picks(m, axis, n)}

\* the results find_val(inputs, val, axis) may return
find_val(inputs, val, axis) ==
    LET val_match == ValMatch(inputs, val)
    IN  Max(FirstMatch(val_match, axis), axis)

\* the integer tensors of shape (b, l)
TokenTensors(b, l) == [1..b -> [1..l -> Tokens]]

(***************************************************************************)
(* Layers (torch.nn), as the constructors of md.py configure them.         *)
(***************************************************************************)
\* period of the stream of dropout draws
RngPeriod == 2

\* nn.Linear(in_features, out_features, bias=True): its parameters are set
\* at construction (id and salt stand for the random initialisation) and
\* kept for the lifetime of the module.  weight has shape (out, in).
LinearInit(in_features, out_features, id, salt) ==
    [in_features |-> in_features, out_features |-> out_features,
     weight |-> Matrix([o \in 1..out_features |-> [i \in 1..in_features |->
                    ((7 * id + 3 * o + 5 * i + salt) % 5) - 2]]),
     bias |-> Vector([o \in 1..out_features |-> ((id + 2 * o + salt) % 3) - 1])]

\* nn.Dropout(p): p in percent; id is the layer's place in the draw order
DropoutInit(p, id) == [p |-> p, id |-> id]

\* whether draw n of the stream fixed by seed keeps its element
Keep(seed, n) == (seed \div (2 ^ (n % RngPeriod))) % 2 = 1

\* Dropout on a (batch, width) tensor: the identity in evaluation mode and
\* for p = 0; in training mode an element is zeroed or scaled by 1/(1-p)
Dropout(layer, x, train, seed) ==
    IF ~train \/ layer.p = 0 THEN x
    ELSE Matrix([b \in 1..Len(x) |-> [j \in 1..Len(x[b]) |->
            IF Keep(seed, layer.id + b + j)
            THEN x[b][j] * (100 \div (100 - layer.p)) ELSE 0]])

\* Dropout on a (batch, n, width) tensor
Dropout3(layer, t, train, seed) ==
    IF ~train \/ layer.p = 0 THEN t
    ELSE Tensor([b \in 1..Len(t) |-> [i \in 1..Len(t[b]) |-> [j \in 1..Len(t[b][i]) |->
            IF Keep(seed, layer.id + b + i + j)
            THEN t[b][i][j] * (100 \div (100 - layer.p)) ELSE 0]]])

\* one row through a linear layer: weight . row + bias
LinearRow(lin, row) ==
    Vector([o \in 1..lin.out_features |->
        Sum([i \in 1..lin.in_features |-> lin.weight[o][i] * row[i]],
            lin.in_features) + lin.bias[o]])

\* Linear on a (batch, width) tensor; a width other than in_features raises
Linear(lin, x) ==
    IF Size1(x) # lin.in_features THEN Raise("RuntimeError")
    ELSE Ok(Vector([b \in 1..Len(x) |-> LinearRow(lin, x[b])]))

\* Linear on a (batch, n, width) tensor, applied to every row
Linear3(lin, t) ==
    IF Len(t[1][1]) # lin.in_features THEN Raise("RuntimeError")
    ELSE Ok(Vector([b \in 1..Len(t) |->
                Vector([i \in 1..Len(t[b]) |-> LinearRow(lin, t[b][i])])]))

\* nn.ReLU
ReLU(x) ==
    Matrix([b \in 1..Len(x) |-> [j \in 1..Len(x[b]) |->
                IF x[b][j] > 0 THEN x[b][j] ELSE 0]])

\* a mutant of bmm: every batch element is multiplied by the first element
\* of the second operand
bmmFirstElement(a, b) ==
    IF Len(a) # Len(b) \/ Len(a[1][1]) # Len(b[1]) THEN Raise("RuntimeError")
    ELSE Ok(Tensor([n \in 1..Len(a) |-> [i \in 1..Len(a[n]) |-> [j \in 1..Len(b[1][1]) |->
            Sum([t \in 1..Len(b[1]) |-> a[n][i][t] * b[1][t][j]], Len(b[1]))]]]))

\* a mutant of bmm: operands of different batch sizes are broadcast
bmmBroadcast(a, b) ==
    IF Len(a[1][1]) # Len(b[1]) THEN Raise("RuntimeError")
    ELSE Ok(Tensor([n \in 1..Len(a) |-> [i \in 1..Len(a[n]) |-> [j \in 1..Len(b[1][1]) |->
            Sum([t \in 1..Len(b[1]) |->
                    a[n][i][t] * b[IF n <= Len(b) THEN n ELSE 1][t][j]],
                Len(b[1]))]]]))

\* torch.bmm(a, b): (B, n, m) x (B, m, p) -> (B, n, p); other shapes raise
bmm(a, b) ==
    IF Len(a) # Len(b) \/ Len(a[1][1]) # Len(b[1]) THEN Raise("RuntimeError")
    ELSE Ok(Tensor([n \in 1..Len(a) |-> [i \in 1..Len(a[n]) |-> [j \in 1..Len(b[n][1]) |->
            Sum([t \in 1..Len(b[n]) |-> a[n][i][t] * b[n][t][j]], Len(b[n]))]]]))

\* the shape of a (batch, n, m) tensor
Shape3(t) == <<Len(t), Len(t[1]), Len(t[1][1])>>

(***************************************************************************)
(* MatrixMapper (md.py 40-79).                                             *)
(***************************************************************************)
\* nn.Sequential(Dropout, Linear(input_dim, hidden_dim), ReLU, Dropout,
\*               Linear(hidden_dim, out_dim))
BranchInit(input_dim, hidden_dim, out_dim, dropout, id, salt) ==
    [drop1 |-> DropoutInit(dropout, id),
     lin1 |-> LinearInit(input_dim, hidden_dim, id, salt),
     drop2 |-> DropoutInit(dropout, id + 1),
     lin2 |-> LinearInit(hidden_dim, out_dim, id + 1, salt)]

\* MatrixMapper.__init__
MatrixMapperInit(input_dim, hidden_dim, k_dim, v_dim, dropout, id, salt) ==
    [k_mapper |-> BranchInit(input_dim, hidden_dim, k_dim, dropout, id, salt),
     v_mapper |-> BranchInit(input_dim, hidden_dim, v_dim, dropout, id + 2, salt)]

\* k_mapper.forward / v_mapper.forward: the layers in order; an exception of
\* a layer ends the call
BranchForward(branch, inputs, train, seed) ==
    LET h == Linear(branch.lin1, Dropout(branch.drop1, inputs, train, seed))
    IN  IF ~h.ok THEN h
        ELSE Linear(branch.lin2, Dropout(branch.drop2, ReLU(h.val), train, seed))

\* k_vec.contiguous().view(batch_size, -1, 1): every key vector as a column
\* (batch_size >= 1: the -1 cannot be inferred for a tensor without elements)
ViewColumn(vec, batch_size) ==
    Tensor([b \in 1..batch_size |-> [i \in 1..Len(vec[b]) |-> <<vec[b][i]>>]])

\* a mutant of ViewRow: the value vector is laid out as a column too
ViewRowAsColumn(vec, batch_size) ==
    Tensor([b \in 1..batch_size |-> [i \in 1..Len(vec[b]) |-> <<vec[b][i]>>]])

\* v_vec.contiguous().view(batch_size, 1, -1): every value vector as a row
ViewRow(vec, batch_size) == Tensor([b \in 1..batch_size |-> <<vec[b]>>])

\* a mutant of OuterProduct: the column and the row are added, not multiplied
OuterSum(post_k, post_v) ==
    Ok(Tensor([n \in 1..Len(post_k) |-> [i \in 1..Len(post_k[n]) |->
            [j \in 1..Len(post_v[n][1]) |-> post_k[n][i][1] + post_v[n][1][j]]]]))

\* torch.bmm(post_k, post_v): the batched outer product
OuterProduct(post_k, post_v) == bmm(post_k, post_v)

\* MatrixMapper.forward with its locals: k_vec, v_vec and the result
MapperFrame(m, inputs, train, seed) ==
    LET k_vec == BranchForward(m.k_mapper, inputs, train, seed)
        v_vec == BranchForward(m.v_mapper, inputs, train, seed)
        batch_size == Size0(inputs)
    IN  IF ~k_vec.ok THEN [k_vec |-> <<>>, v_vec |-> <<>>, result |-> k_vec]
        ELSE IF ~v_vec.ok THEN [k_vec |-> k_vec.val, v_vec |-> <<>>, result |-> v_vec]
        ELSE [k_vec |-> k_vec.val, v_vec |-> v_vec.val,
              result |-> OuterProduct(ViewColumn(k_vec.val, batch_size),
                                      ViewRow(v_vec.val, batch_size))]

MatrixMapper_forward(m, inputs, train, seed) ==
    MapperFrame(m, inputs, train, seed).result

(***************************************************************************)
(* MatrixDecoder (md.py 82-116).                                           *)
(***************************************************************************)
\* MatrixDecoder.__init__
MatrixDecoderInit(input_dim, hidden_dim, max_len, vocab_size, dropm, dropo, salt) ==
    [max_len |-> max_len,
     control_matrix_mapper |->
        MatrixMapperInit(input_dim, hidden_dim, max_len, max_len, dropm, 0, salt),
     semantic_matrix_mapper |->
        MatrixMapperInit(input_dim, hidden_dim, max_len, hidden_dim, dropm, 4, salt),
     word_predictor |->
        [drop1 |-> DropoutInit(dropo, 8),
         lin1 |-> LinearInit(hidden_dim, hidden_dim, 8, salt),
         drop2 |-> DropoutInit(dropo, 9),
         lin2 |-> LinearInit(hidden_dim, vocab_size, 9, salt)]]

\* a mutant of PredictorForward: the output layer is left out
PredictorForwardHiddenOnly(wp, t, train, seed) ==
    Linear3(wp.lin1, Dropout3(wp.drop1, t, train, seed))

\* word_predictor.forward on a (batch, max_len, hidden_dim) tensor
PredictorForward(wp, t, train, seed) ==
    LET h == Linear3(wp.lin1, Dropout3(wp.drop1, t, train, seed))
    IN  IF ~h.ok THEN h
        ELSE Linear3(wp.lin2, Dropout3(wp.drop2, h.val, train, seed))

\* a mutant of DecInit: the control matrix is transposed
DecInitTransposed(con_mat, sem_mat) ==
    bmm([n \in 1..Len(con_mat) |-> [i \in 1..Len(con_mat[n][1]) |->
            [j \in 1..Len(con_mat[n]) |-> con_mat[n][j][i]]]], sem_mat)

\* dec_init = torch.bmm(con_mat, sem_mat)
DecInit(con_mat, sem_mat) == bmm(con_mat, sem_mat)

\* MatrixDecoder.generate with its locals (and those of the two mapper
\* calls); a local the call never reached is <<>>
GenerateFrame(d, con_inputs, sem_inputs, train, seed) ==
    LET con == MapperFrame(d.control_matrix_mapper, con_inputs, train, seed)
        sem == MapperFrame(d.semantic_matrix_mapper, sem_inputs, train, seed)
        dec_init == DecInit(con.result.val, sem.result.val)
        none == [con_k |-> <<>>, con_v |-> <<>>, con_mat |-> <<>>,
                 sem_k |-> <<>>, sem_v |-> <<>>, sem_mat |-> <<>>,
                 dec_init |-> <<>>]
    IN  IF ~con.result.ok THEN [none EXCEPT !.con_k = con.k_vec, !.con_v = con.v_vec]
                                  @@ [result |-> con.result]
        ELSE IF ~sem.result.ok
        THEN [none EXCEPT !.con_k = con.k_vec, !.con_v = con.v_vec,
                          !.con_mat = con.result.val,
                          !.sem_k = sem.k_vec, !.sem_v = sem.v_vec]
                 @@ [result |-> sem.result]
        ELSE IF ~dec_init.ok
        THEN [none EXCEPT !.con_k = con.k_vec, !.con_v = con.v_vec,
                          !.con_mat = con.result.val,
                          !.sem_k = sem.k_vec, !.sem_v = sem.v_vec,
                          !.sem_mat = sem.result.val]
                 @@ [result |-> dec_init]
        ELSE [con_k |-> con.k_vec, con_v |-> con.v_vec, con_mat |-> con.result.val,
              sem_k |-> sem.k_vec, sem_v |-> sem.v_vec, sem_mat |-> sem.result.val,
              dec_init |-> dec_init.val,
              result |-> PredictorForward(d.word_predictor, dec_init.val, train, seed)]

MatrixDecoder_generate(d, con_inputs, sem_inputs, train, seed) ==
    GenerateFrame(d, con_inputs, sem_inputs, train, seed).result

\* a mutant of MatrixDecoder_forward: the semantic source is not the input
MatrixDecoder_forwardOtherSource(d, inputs, train, seed) ==
    MatrixDecoder_generate(d, inputs,
        [b \in 1..Len(inputs) |-> [j \in 1..Len(inputs[b]) |-> 0 - inputs[b][j]]],
        train, seed)

\* MatrixDecoder.forward
MatrixDecoder_forward(d, inputs, train, seed) ==
    MatrixDecoder_generate(d, inputs, inputs, train, seed)

\* VarMD.__init__: latent_dim is not used
VarMDInit(input_dim, latent_dim, hidden_dim, max_len, vocab_size, dropm, dropo, salt) ==
    MatrixDecoderInit(input_dim, hidden_dim, max_len, vocab_size, dropm, dropo, salt)

(***************************************************************************)
(* BaseRNN (baseRNN.py 5-48).  A string is its sequence of character codes. *)
(***************************************************************************)
\* a mutant of Lower: the text is left as it is
LowerNothing(s) == s

\* str.lower() on ASCII text: A..Z (65..90) move to a..z
Lower(s) == [i \in 1..Len(s) |-> IF s[i] >= 65 /\ s[i] <= 90 THEN s[i] + 32 ELSE s[i]]

\* 'lstm' and 'gru'
lstm == <<108, 115, 116, 109>>
gru == <<103, 114, 117>>

\* BaseRNN.__init__: the instance, or the exception raised
BaseRNN_init(vocab_size, max_len, input_size, hidden_size, embed_droprate, rnn_droprate, n_layers, rnn_cell) ==
    LET self == [vocab_size |-> vocab_size, max_len |-> max_len,
                 input_size |-> input_size, hidden_size |-> hidden_size,
                 n_layers |-> n_layers,
                 embed_dropout |-> embed_droprate,
                 rnn_droprate |-> IF n_layers > 1 THEN rnn_droprate ELSE 0,
                 embedding |-> <<vocab_size, input_size>>]
    IN  IF Lower(rnn_cell) = lstm THEN Ok(self @@ [rnn_cell |-> "nn.LSTM"])
        ELSE IF Lower(rnn_cell) = gru THEN Ok(self @@ [rnn_cell |-> "nn.GRU"])
        ELSE Raise("ValueError")

\* BaseRNN.forward
BaseRNN_forward(self) == Raise("NotImplementedError")

(***************************************************************************)
(* The driver: the inputs it hands to the operations.                      *)
(***************************************************************************)
\* the spellings of word in upper and lower case
CaseVariants(word) ==
    {[i \in 1..Len(word) |-> IF i \in upper THEN word[i] - 32 ELSE word[i]] :
        upper \in SUBSET (1..Len(word))}

\* the rnn_cell strings tried: every spelling of lstm and gru, and others
\* ("transformer", "rnn", "lstmm", "ls", "gr", "")
CellNames ==
    CaseVariants(lstm) \cup CaseVariants(gru) \cup
    {<<116, 114, 97, 110, 115, 102, 111, 114, 109, 101, 114>>,
     <<114, 110, 110>>, <<108, 115, 116, 109, 109>>, <<108, 115>>,
     <<103, 114>>, <<>>}

\* sample feature vectors of a width
FeatureRows(w) == {[i \in 1..w |-> ((i + k) % 3) - 1] : k \in RowSeeds}

\* the feature-vector batches of shape (b, w)
Batches(b, w) == [1..b -> FeatureRows(w)]

\* the decoders constructed: (input_dim, hidden_dim, max_len, vocab_size,
\* dropm, dropo) and the parameters' initialisation; dropout rates are 0 or
\* 50 percent, so that the scale 1/(1-p) is an integer
Decoders ==
    {MatrixDecoderInit(2, 3, 2, 4, 50, 50, 0),
     MatrixDecoderInit(1, 2, 3, 2, 0, 0, 1),
     VarMDInit(2, 1, 2, 2, 3, 50, 0, 2)}

\* the decoder of the documented shape contract: max_len = 10,
\* hidden_dim = 16, vocab_size = 50, decoding batches of size 4
ContractDecoder == MatrixDecoderInit(2, 16, 10, 50, 50, 50, 0)
ContractBatch(w) == Matrix([b \in 1..4 |-> [i \in 1..w |-> ((i + b) % 3) - 1]])

\* the batches of width w handed to decoder d
Inputs(d, w) ==
    IF d = ContractDecoder THEN {ContractBatch(w)}
    ELSE UNION {Batches(b, w) : b \in 1..MaxBatch}

\* input_dim of a decoder, and the widths of the batches handed to it
InputDim(d) == d.control_matrix_mapper.k_mapper.lin1.in_features
Widths(d) == 1..(InputDim(d) + 1)

\* the dropout draws of a call: none in evaluation mode
Draws == IF training THEN Seeds ELSE {0}

NoCall == [op |-> "none"]

FindVal ==
    /\ call.op = "none"
    /\ \E b \in 1..MaxBatch, l \in 1..MaxSeq, val \in Tokens, axis \in {0, 1} :
         \E inputs \in TokenTensors(b, l) :
           \E res \in find_val(inputs, val, axis) :
             call' = [op |-> "find_val", inputs |-> inputs, val |-> val,
                      axis |-> axis, is_find |-> res.values,
                      indices |-> res.indices]
    /\ UNCHANGED <<decoder, training>>

MapperForward ==
    /\ call.op = "none"
    /\ \E which \in {"control", "semantic"}, w \in Widths(decoder), seed \in Draws :
         \E inputs \in Inputs(decoder, w) :
           LET m == IF which = "control" THEN decoder.control_matrix_mapper
                    ELSE decoder.semantic_matrix_mapper
               f == MapperFrame(m, inputs, training, seed)
           IN  call' = [op |-> "MatrixMapper.forward", mapper |-> which,
                        inputs |-> inputs, seed |-> seed,
                        k_vec |-> f.k_vec, v_vec |-> f.v_vec,
                        result |-> MatrixMapper_forward(m, inputs, training, seed)]
    /\ UNCHANGED <<decoder, training>>

Generate ==
    /\ call.op = "none"
    /\ \E wc \in Widths(decoder), ws \in Widths(decoder), seed \in Draws :
         \E con_inputs \in Inputs(decoder, wc), sem_inputs \in Inputs(decoder, ws) :
           LET f == GenerateFrame(decoder, con_inputs, sem_inputs, training, seed)
           IN  call' = [op |-> "MatrixDecoder.generate",
                        con_inputs |-> con_inputs, sem_inputs |-> sem_inputs,
                        seed |-> seed,
                        con_k |-> f.con_k, con_v |-> f.con_v, con_mat |-> f.con_mat,
                        sem_k |-> f.sem_k, sem_v |-> f.sem_v, sem_mat |-> f.sem_mat,
                        dec_init |-> f.dec_init,
                        result |-> MatrixDecoder_generate(decoder, con_inputs,
                                       sem_inputs, training, seed)]
    /\ UNCHANGED <<decoder, training>>

Forward ==
    /\ call.op = "none"
    /\ \E w \in Widths(decoder), seed \in Draws :
         \E inputs \in Inputs(decoder, w) :
           call' = [op |-> "MatrixDecoder.forward", inputs |-> inputs,
                    seed |-> seed,
                    result |-> MatrixDecoder_forward(decoder, inputs, training, seed)]
    /\ UNCHANGED <<decoder, training>>

\* the driver switches between training and evaluation mode
SetMode ==
    /\ call.op = "none"
    /\ training' = ~training
    /\ UNCHANGED <<decoder, call>>

\* BaseRNN(...): the call hands back the instance, or raises; the sizes and
\* rates handed over are valid ones
BaseRNNConstruct ==
    /\ call.op = "none"
    /\ \E rnn_cell \in CellNames, n_layers \in {1, 2}, rnn_droprate \in {0, 50} :
         call' = [op |-> "BaseRNN", rnn_cell |-> rnn_cell,
                  n_layers |-> n_layers, rnn_droprate |-> rnn_droprate,
                  result |-> BaseRNN_init(4, 3, 2, 3, 50, rnn_droprate,
                                          n_layers, rnn_cell)]
    /\ UNCHANGED <<decoder, training>>

\* forward() on the instance just constructed
BaseRNNForward ==
    /\ call.op = "BaseRNN"
    /\ call.result.ok
    /\ call' = [op |-> "BaseRNN.forward", self |-> call.result.val,
                result |-> BaseRNN_forward(call.result.val)]
    /\ UNCHANGED <<decoder, training>>

Return ==
    /\ call.op # "none"
    /\ call' = NoCall
    /\ UNCHANGED <<decoder, training>>

\* no decoder is needed by find_val and BaseRNN
NoDecoder == <<>>

(***************************************************************************)
(* find_val on its own.                                                    *)
(***************************************************************************)
InitFind ==
    /\ decoder = NoDecoder
    /\ training = TRUE
    /\ call = NoCall

NextFind == FindVal \/ Return

SpecFind == InitFind /\ [][NextFind]_vars

(***************************************************************************)
(* BaseRNN on its own.                                                     *)
(***************************************************************************)
InitRNN ==
    /\ decoder = NoDecoder
    /\ training = TRUE
    /\ call = NoCall

NextRNN == BaseRNNConstruct \/ BaseRNNForward \/ Return

SpecRNN == InitRNN /\ [][NextRNN]_vars

(***************************************************************************)
(* A constructed MatrixDecoder and the calls on it and on its mappers.     *)
(* nn.Module starts in training mode.                                      *)
(***************************************************************************)
Init ==
    /\ decoder \in Decoders \cup {ContractDecoder}
    /\ training = TRUE
    /\ call = NoCall

Next ==
    \/ MapperForward
    \/ Generate
    \/ Forward
    \/ SetMode
    \/ Return

Spec == Init /\ [][Next]_vars

(***************************************************************************)
(* The claims about find_val, under SpecFind.                              *)
(***************************************************************************)
\* the 0-based positions of row r of inputs that hold val
Occurrences(inputs, r, val) ==
    {p - 1 : p \in {q \in 1..Len(inputs[r]) : inputs[r][q] = val}}

\* C1: for every row of a find_val(inputs, val) call in which val occurs,
\* once or several times, the index returned for the row is the smallest
\* position holding val.
C1_FirstOccurrence ==
    (call.op = "find_val" /\ call.axis = 1) =>
        \A r \in 1..Len(call.inputs) :
            Occurrences(call.inputs, r, call.val) # {} =>
                /\ call.indices[r] \in Occurrences(call.inputs, r, call.val)
                /\ \A p \in Occurrences(call.inputs, r, call.val) :
                       call.indices[r] <= p

\* C1 happens: a row holds val several times, first at a position after 0,
\* and that position is returned.
C1_Witness ==
    /\ call.op = "find_val" /\ call.axis = 1
    /\ \E r \in 1..Len(call.inputs) :
         /\ Cardinality(Occurrences(call.inputs, r, call.val)) >= 2
         /\ 0 \notin Occurrences(call.inputs, r, call.val)
         /\ call.indices[r] = 1

\* C2: for every row of a find_val(inputs, val) call the found flag is True
\* exactly when val occurs somewhere in the row.
C2_FoundIffOccurs ==
    (call.op = "find_val" /\ call.axis = 1) =>
        \A r \in 1..Len(call.inputs) :
            call.is_find[r] <=> (Occurrences(call.inputs, r, call.val) # {})

\* C2 happens: one call with a row that holds val (not in front) and a row
\* that does not, flagged True and False.
C2_Witness ==
    /\ call.op = "find_val" /\ call.axis = 1
    /\ Len(call.inputs) = 2
    /\ Occurrences(call.inputs, 1, call.val) = {2}
    /\ Occurrences(call.inputs, 2, call.val) = {}
    /\ call.is_find = <<TRUE, FALSE>>

(***************************************************************************)
(* The claim about BaseRNN, under SpecRNN.                                 *)
(***************************************************************************)
\* text s is word (given in lower case) up to the case of its letters
SameIgnoringCase(s, word) ==
    /\ Len(s) = Len(word)
    /\ \A i \in 1..Len(word) : s[i] = word[i] \/ s[i] = word[i] - 32

\* C7: constructing BaseRNN succeeds exactly when rnn_cell is "lstm" or
\* "gru" up to case, selecting the LSTM resp. the GRU cell; for any other
\* string it raises ValueError and hands back no instance.
C7_CellSelection ==
    call.op = "BaseRNN" =>
        /\ call.result.ok <=> (\/ SameIgnoringCase(call.rnn_cell, lstm)
                               \/ SameIgnoringCase(call.rnn_cell, gru))
        /\ SameIgnoringCase(call.rnn_cell, lstm) =>
               call.result.val.rnn_cell = "nn.LSTM"
        /\ SameIgnoringCase(call.rnn_cell, gru) =>
               call.result.val.rnn_cell = "nn.GRU"
        /\ ~call.result.ok =>
               call.result = [ok |-> FALSE, err |-> "ValueError"]

\* C7 happens: "GRU" in upper case constructs an instance with the GRU cell.
C7_Witness ==
    /\ call.op = "BaseRNN"
    /\ call.rnn_cell = <<71, 82, 85>>
    /\ call.result.ok
    /\ call.result.val.rnn_cell = "nn.GRU"

(***************************************************************************)
(* The claims about MatrixMapper and MatrixDecoder, under Spec.            *)
(***************************************************************************)
\* the dimensions a mapper and the decoder were constructed with
KDim(m) == m.k_mapper.lin2.out_features
VDim(m) == m.v_mapper.lin2.out_features
HiddenDim(d) == d.word_predictor.lin1.in_features
VocabSize(d) == d.word_predictor.lin2.out_features

\* the mapper a MatrixMapper.forward call was made on
CalledMapper ==
    IF call.mapper = "control" THEN decoder.control_matrix_mapper
    ELSE decoder.semantic_matrix_mapper

\* dropout does nothing to a call on mapper m: evaluation mode, or p = 0
MapperDropoutOff(m) ==
    ~training \/ (m.k_mapper.drop1.p = 0 /\ m.v_mapper.drop1.p = 0)

\* dropout does nothing to a call on the decoder
DecoderDropoutOff ==
    ~training \/ (/\ MapperDropoutOff(decoder.control_matrix_mapper)
                  /\ MapperDropoutOff(decoder.semantic_matrix_mapper)
                  /\ decoder.word_predictor.drop1.p = 0
                  /\ decoder.word_predictor.drop2.p = 0)

\* u . v
Dot(u, v) == Sum([t \in 1..Len(u) |-> u[t] * v[t]], Len(u))

\* C3: forward(x) hands back what generate(x, x) hands back (the logits, or
\* the exception) on the same decoder, mode and dropout draws.
C3_ForwardIsGenerate ==
    call.op = "MatrixDecoder.forward" =>
        call.result = MatrixDecoder_generate(decoder, call.inputs, call.inputs,
                                             training, call.seed)

\* C3 happens: a forward call in training mode with dropout at work, on a
\* batch of two different vectors, handing back logits.
C3_Witness ==
    /\ call.op = "MatrixDecoder.forward"
    /\ training /\ ~DecoderDropoutOff
    /\ Len(call.inputs) = 2 /\ call.inputs[1] # call.inputs[2]
    /\ call.result.ok

C5_RankOne ==
    (call.op = "MatrixMapper.forward" /\ call.result.ok
        /\ MapperDropoutOff(CalledMapper)) =>
        \A b \in 1..Len(call.result.val) :
            LET key == BranchForward(CalledMapper.k_mapper, <<call.inputs[b]>>,
                                     FALSE, 0).val[1]
                value == BranchForward(CalledMapper.v_mapper, <<call.inputs[b]>>,
                                       FALSE, 0).val[1]
                mat == call.result.val[b]
            IN  /\ \A i \in 1..Len(mat) : \A j \in 1..Len(mat[i]) :
                       mat[i][j] = key[i] * value[j]
                /\ \A i1 \in 1..Len(mat), i2 \in 1..Len(mat) :
                   \A j1 \in 1..Len(mat[1]), j2 \in 1..Len(mat[1]) :
                       mat[i1][j1] * mat[i2][j2] = mat[i1][j2] * mat[i2][j1]

\* C5 happens: with dropout off a mapper hands back a matrix with two
\* non-zero rows and two non-zero columns.
C5_Witness ==
    /\ call.op = "MatrixMapper.forward" /\ call.result.ok
    /\ MapperDropoutOff(CalledMapper)
    /\ \E b \in 1..Len(call.result.val) :
         LET mat == call.result.val[b]
         IN  \E i1 \in 1..Len(mat), i2 \in 1..Len(mat) :
             \E j1 \in 1..Len(mat[1]), j2 \in 1..Len(mat[1]) :
                 /\ i1 # i2 /\ j1 # j2
                 /\ mat[i1][j1] # 0 /\ mat[i2][j2] # 0
                 /\ mat[i1][j1] # mat[i2][j1]

\* both inputs of a generate call have shape (B, input_dim), with one B
WellShaped ==
    /\ Size1(call.con_inputs) = InputDim(decoder)
    /\ Size1(call.sem_inputs) = InputDim(decoder)
    /\ Size0(call.con_inputs) = Size0(call.sem_inputs)

C8_ShapeMismatchRaises ==
    (call.op = "MatrixDecoder.generate" /\ ~WellShaped) =>
        call.result = [ok |-> FALSE, err |-> "RuntimeError"]

\* C8 happens: inputs of the right width and of different batch sizes raise
\* after both matrices were built.
C8_Witness ==
    /\ call.op = "MatrixDecoder.generate"
    /\ Size1(call.con_inputs) = InputDim(decoder)
    /\ Size1(call.sem_inputs) = InputDim(decoder)
    /\ Size0(call.con_inputs) # Size0(call.sem_inputs)
    /\ call.con_mat # <<>> /\ call.sem_mat # <<>>
    /\ ~call.result.ok

C10_DecInitRankOne ==
    (call.op = "MatrixDecoder.generate" /\ call.result.ok) =>
        \A b \in 1..Len(call.dec_init) :
            \A i \in 1..Len(call.dec_init[b]) :
                \A j \in 1..Len(call.dec_init[b][i]) :
                    call.dec_init[b][i][j] =
                        call.con_k[b][i] * Dot(call.con_v[b], call.sem_k[b])
                                         * call.sem_v[b][j]

\* C10 happens: a decoder initial state with two different non-zero rows.
C10_Witness ==
    /\ call.op = "MatrixDecoder.generate" /\ call.result.ok
    /\ \E b \in 1..Len(call.dec_init) :
         \E i1 \in 1..Len(call.dec_init[b]), i2 \in 1..Len(call.dec_init[b]) :
           \E j \in 1..Len(call.dec_init[b][1]) :
             /\ call.dec_init[b][i1][j] # 0
             /\ call.dec_init[b][i2][j] # 0
             /\ call.dec_init[b][i1][j] # call.dec_init[b][i2][j]
====
